---- MODULE Spec2Model ----
(***************************************************************************)
(* The RSS-to-channel bot of src/main.py: the BotController lifecycle      *)
(* (start / stop / restart command handlers), the rss_loop worker threads  *)
(* and the shared state they touch (stats, sent_entries, the channel).     *)
(*                                                                         *)
(* Granularity: one step per statement that reads or writes shared state.  *)
(* A dict store, a set add and a "+= 1" are each one step; the loop        *)
(* condition of rss_loop is two steps, one for each of its reads.          *)
(*                                                                         *)
(* Time: the only timing fact used is that a statement which does not wait *)
(* takes less than the 5 s of stop()'s join.  The join therefore expires   *)
(* only while every live worker sits in a call that takes time (a network  *)
(* call, image rendering, a sleep, or a wait on an event that is clear).   *)
(* A call that takes time may return at any moment.                        *)
(***************************************************************************)
EXTENDS Integers, Sequences, FiniteSets, TLC

\* ------------------------------------------------------------------ bounds
MaxWorkers == 2      \* Thread objects that may exist at once
MaxFaults == 1       \* calls the environment makes fail under Spec, SpecRace, SpecOrder
MaxLinks == 1        \* distinct entry links served by the feeds of Spec and SpecRace
OrderWorkers == 1    \* Thread objects that may exist at once under SpecOrder
MaxPosts == 2        \* messages delivered to the channel under Spec
RacePosts == 1       \* messages delivered to the channel under SpecRace
OrderPosts == 3      \* messages delivered to the channel under SpecOrder
NumSources == 2      \* configured sources under SpecSources
SourceWorkers == 1   \* Thread objects that may exist at once under SpecSources
SourcePosts == 2     \* messages delivered to the channel under SpecSources
SourceFaults == 2    \* calls the environment makes fail under SpecSources
EnhanceWorkers == 1  \* Thread objects that may exist at once under SpecEnhance
EnhancePosts == 1    \* messages delivered to the channel under SpecEnhance
GateWorkers == 1     \* Thread objects that may exist at once under SpecGate
GatePosts == 1       \* messages delivered to the channel under SpecGate
LiveSlots == 1       \* Thread objects that may exist at once under SpecLive
LivePosts == 2       \* messages delivered to the channel under SpecLive

\* ------------------------------------------------------- program constants
NumThreads == 2      \* telebot.TeleBot(TOKEN): handler pool of the default threaded bot
MaxEntries == 10     \* feed.entries[:10]

NoLink == 0          \* an entry without a link attribute
NoThread == 0        \* worker_thread = None

Workers == 1..MaxWorkers
Handlers == 1..NumThreads

VARIABLES
    is_running,      \* BotController.is_running
    stop_event,      \* BotController.stop_event (TRUE = set)
    worker_thread,   \* BotController.worker_thread: a worker id or NoThread
    stats,           \* the stats dict; a timestamp is TRUE when it holds a datetime
    sent_entries,    \* the set of links recorded as published
    channel,         \* the messages delivered to CHANNEL_ID, as the links they carry
    disk,            \* number of image files in ImageGenerator.output_dir
    hpc,             \* handler thread -> the statement it is at
    hcmd,            \* handler thread -> the command it is handling
    hret,            \* handler thread -> what controller.start()/stop() returned
    hjoin,           \* handler thread -> the thread its join waits for
    hfrom,           \* handler thread -> the sender of the last message it took
    wpc,             \* worker -> the statement it is at
    wurl,            \* worker -> index into RSS_URLS of the for loop
    wfeed,           \* worker -> feed.entries of the last fetch
    widx,            \* worker -> index into reversed(feed.entries[:10])
    wimg,            \* worker -> image_path is a path (TRUE) or None
    wlog,            \* worker -> positions in wfeed it published since the fetch
    wstopped,        \* worker -> stop() set the event while this thread, the
                     \* controller's worker_thread, was in the inter-cycle wait
    wfail,           \* worker -> the sources whose fetch raised in this cycle
    wvia,            \* worker -> the call that delivered the entry in hand
    wmsg,            \* worker -> what format_message did for the entry in hand
    threads,         \* handler threads that take commands (1: one at a time)
    slots,           \* Thread objects that may exist at once
    posts,           \* messages the channel takes
    budget,          \* calls the environment may make fail
    RSS_URLS,        \* number of configured sources
    yagpt,           \* not DISABLE_YAGPT and YANDEX_API_KEY and YANDEX_FOLDER_ID
    web,             \* the entry lists the remote sources may serve
    track,           \* the history of sent_entries across stop() and start() is kept
    atstop,          \* history: sent_entries when the last stop() executed line 335
    carried,         \* history: the links of atstop at the later start()s (line 315)
    faults           \* calls the environment has made fail so far

cvars == <<is_running, stop_event, worker_thread>>
hvars == <<hpc, hcmd, hret, hjoin, hfrom>>
wvars == <<wpc, wurl, wfeed, widx, wimg, wlog, wstopped, wfail, wvia, wmsg>>
env == <<threads, slots, posts, budget, RSS_URLS, yagpt, web, track>>
hist == <<atstop, carried>>
vars == <<is_running, stop_event, worker_thread, stats, sent_entries, channel, disk,
          hpc, hcmd, hret, hjoin, hfrom, wpc, wurl, wfeed, widx, wimg, wlog, wstopped,
          wfail, wvia, wmsg, threads, slots, posts, budget, RSS_URLS, yagpt, web, track,
          atstop, carried, faults>>

\* ------------------------------------------------------------------ helpers
Min(a, b) == IF a < b THEN a ELSE b

Reverse(s) == [i \in 1..Len(s) |-> s[Len(s) + 1 - i]]

\* feed.entries[:10] taken in the order of the source, newest first
ForwardPos(feed) == [i \in 1..Min(MaxEntries, Len(feed)) |-> i]

\* reversed(feed.entries[:10]) as positions of feed.entries
BatchPos(feed) == Reverse([i \in 1..Min(MaxEntries, Len(feed)) |-> i])

Batch(feed) == [i \in 1..Len(BatchPos(feed)) |-> feed[BatchPos(feed)[i]]]

InitialStats ==
    [start_time |-> FALSE, posts_sent |-> 0, last_check |-> FALSE, errors |-> 0,
     last_post |-> FALSE, yagpt_used |-> 0, yagpt_errors |-> 0, images_generated |-> 0]

\* no entry in hand
NoMessage == [enh |-> "none", tl |-> 0, dl |-> 0, title |-> "none", description |-> "none"]

\* lengths of the title and of the description an enhancement may return
TitleLens == {5, 10, 11, 119, 120}
DescLens == {30, 31, 599, 600}

Counters == {"posts_sent", "errors", "yagpt_used", "yagpt_errors", "images_generated"}
Timestamps == {"last_check", "last_post"}

\* threading.Thread.is_alive(): started and not finished
Alive(w) == wpc[w] \notin {"none", "new", "done"}

LiveWorkers == {w \in Workers : Alive(w)}

\* Positions where time passes for the worker.
TimedCalls == {"fetch", "format", "image", "photo", "text", "fallback", "sleep", "cooldown"}

\* a wait that sleeps out CHECK_INTERVAL whatever the event says
SleepBlocks(w) == wpc[w] = "wait"

\* stop_event.wait(CHECK_INTERVAL) returns at once when the event is set.
InterCycleWaitBlocks(w) == wpc[w] = "wait" /\ ~stop_event

Blocked(w) == wpc[w] \in TimedCalls \/ InterCycleWaitBlocks(w)

\* join(timeout=5.0) can run out only while no live worker has a statement to execute
JoinCanExpire == \A w \in LiveWorkers : Blocked(w)

\* A Thread object nobody refers to is collected; a running one keeps running.
FreeSlots == {w \in Workers : wpc[w] \in {"none", "done"} /\ w # worker_thread}

\* handlers that may still create a Thread
Spawning == {h \in Handlers : hcmd[h] \in {"start", "restart"} /\ hpc[h] \notin {"idle", "reply"}}

\* ---------------------------------------------------------------- Init
TypeOK ==
    /\ is_running \in BOOLEAN /\ stop_event \in BOOLEAN
    /\ worker_thread \in Workers \cup {NoThread}
    /\ sent_entries \subseteq 1..(MaxLinks + 2)
    /\ \A w \in Workers : widx[w] \in 0..(MaxEntries + 1)

InitState ==
    /\ is_running = FALSE
    /\ stop_event = FALSE
    /\ worker_thread = NoThread
    /\ stats = InitialStats
    /\ sent_entries = {}
    /\ channel = <<>>
    /\ disk = 0
    /\ atstop = {}
    /\ carried = {}
    /\ hpc = [h \in Handlers |-> "idle"]
    /\ hcmd = [h \in Handlers |-> "none"]
    /\ hret = [h \in Handlers |-> "none"]
    /\ hjoin = [h \in Handlers |-> NoThread]
    /\ hfrom = [h \in Handlers |-> "none"]
    /\ wpc = [w \in Workers |-> "none"]
    /\ wurl = [w \in Workers |-> 0]
    /\ wfeed = [w \in Workers |-> <<>>]
    /\ widx = [w \in Workers |-> 0]
    /\ wimg = [w \in Workers |-> FALSE]
    /\ wlog = [w \in Workers |-> <<>>]
    /\ wstopped = [w \in Workers |-> FALSE]
    /\ wfail = [w \in Workers |-> <<>>]
    /\ wvia = [w \in Workers |-> "none"]
    /\ wmsg = [w \in Workers |-> NoMessage]
    /\ faults = 0

\* feeds over the links 1..MaxLinks, newest first (the larger link is the newer)
SmallFeeds ==
    {f \in UNION {[1..n -> 1..MaxLinks] : n \in 1..MaxLinks} :
        \A i, j \in 1..Len(f) : i < j => f[i] > f[j]}

\* Commands handled one at a time (spec section 5), one source, enhancement off
\* (YANDEX_API_KEY unset, line 76).
Init ==
    /\ InitState
    /\ threads = 1
    /\ slots = MaxWorkers
    /\ posts = MaxPosts
    /\ budget = MaxFaults
    /\ RSS_URLS = 1
    /\ yagpt = FALSE
    /\ web = SmallFeeds
    /\ track = FALSE

\* Commands handled by the two threads of telebot's pool.
InitRace ==
    /\ InitState
    /\ threads = NumThreads
    /\ slots = MaxWorkers
    /\ posts = RacePosts
    /\ budget = MaxFaults
    /\ RSS_URLS = 1
    /\ yagpt = FALSE
    /\ web = SmallFeeds
    /\ track = FALSE

\* [E1 (newest), E2, E3 (oldest)] and a feed of 11 entries, nine of them without a
\* link, whose two oldest entries are new
OrderFeeds == { <<3, 2, 1>>, <<0, 0, 0, 0, 0, 0, 0, 0, 0, 2, 1>> }

\* One worker at a time, commands one at a time, feeds that show the order.
InitOrder ==
    /\ InitState
    /\ threads = 1
    /\ slots = OrderWorkers
    /\ posts = OrderPosts
    /\ budget = MaxFaults
    /\ RSS_URLS = 1
    /\ yagpt = FALSE
    /\ web = OrderFeeds
    /\ track = FALSE

\* Two sources, one worker at a time, two calls may fail.
InitSources ==
    /\ InitState
    /\ threads = 1
    /\ slots = SourceWorkers
    /\ posts = SourcePosts
    /\ budget = SourceFaults
    /\ RSS_URLS = NumSources
    /\ yagpt = FALSE
    /\ web = SmallFeeds
    /\ track = FALSE

\* Enhancement configured (YANDEX_API_KEY and YANDEX_FOLDER_ID set, lines 76-78),
\* one worker at a time.
InitEnhance ==
    /\ InitState
    /\ threads = 1
    /\ slots = EnhanceWorkers
    /\ posts = EnhancePosts
    /\ budget = MaxFaults
    /\ RSS_URLS = 1
    /\ yagpt = TRUE
    /\ web = SmallFeeds
    /\ track = FALSE

\* Messages of any sender, handled one at a time.
InitGate ==
    /\ InitState
    /\ threads = 1
    /\ slots = GateWorkers
    /\ posts = GatePosts
    /\ budget = MaxFaults
    /\ RSS_URLS = 1
    /\ yagpt = FALSE
    /\ web = SmallFeeds
    /\ track = FALSE

\* Commands handled one at a time; every call of the worker returns.
InitLive ==
    /\ InitState
    /\ threads = 1
    /\ slots = LiveSlots
    /\ posts = LivePosts
    /\ budget = MaxFaults
    /\ RSS_URLS = 1
    /\ yagpt = FALSE
    /\ web = SmallFeeds
    /\ track = FALSE

\* As Init, with the history of sent_entries across stop() and start() kept.
InitCarry ==
    /\ InitState
    /\ threads = 1
    /\ slots = MaxWorkers
    /\ posts = MaxPosts
    /\ budget = MaxFaults
    /\ RSS_URLS = 1
    /\ yagpt = FALSE
    /\ web = SmallFeeds
    /\ track = TRUE

\* ------------------------------------------------------- command handlers
\* start_command / stop_command / restart_command, lines 716-758, owner's messages
Dispatch(h, c) ==
    /\ hpc[h] = "idle"
    /\ h <= threads
    /\ c \in {"start", "stop", "restart"}
    /\ \/ c = "stop"
       \/ c = "start" /\ is_running
       \/ Cardinality(LiveWorkers) + Cardinality(Spawning) < slots
    /\ hcmd' = [hcmd EXCEPT ![h] = c]
    /\ hfrom' = [hfrom EXCEPT ![h] = "owner"]
    /\ hret' = [hret EXCEPT ![h] = "none"]
    /\ hpc' = [hpc EXCEPT ![h] = IF c = "start" THEN "s_check" ELSE "p_check"]
    /\ UNCHANGED <<cvars, stats, sent_entries, channel, hjoin, wvars, env, disk, hist, faults>>

\* line 312-313: if self.is_running: return False
StartCheck(h) ==
    /\ hpc[h] = "s_check"
    /\ IF is_running
       THEN /\ hpc' = [hpc EXCEPT ![h] = "reply"]
            /\ hret' = [hret EXCEPT ![h] = "false"]
       ELSE /\ hpc' = [hpc EXCEPT ![h] = "s_run"]
            /\ UNCHANGED hret
    /\ UNCHANGED <<cvars, stats, sent_entries, channel, hcmd, hfrom, hjoin, wvars, env, disk, hist, faults>>

\* line 315: self.is_running = True
StartSetRunning(h) ==
    /\ hpc[h] = "s_run"
    /\ is_running' = TRUE
    /\ hpc' = [hpc EXCEPT ![h] = "s_clear"]
    /\ carried' = IF track THEN carried \cup atstop ELSE carried
    /\ UNCHANGED <<stop_event, worker_thread, stats, sent_entries, channel,
                   hcmd, hfrom, hret, hjoin, wvars, env, disk, atstop, faults>>

\* line 316: self.stop_event.clear()
StartClear(h) ==
    /\ hpc[h] = "s_clear"
    /\ stop_event' = FALSE
    /\ hpc' = [hpc EXCEPT ![h] = "s_new"]
    /\ UNCHANGED <<is_running, worker_thread, stats, sent_entries, channel,
                   hcmd, hfrom, hret, hjoin, wvars, env, disk, hist, faults>>

\* line 317: self.worker_thread = threading.Thread(target=self.rss_loop, daemon=True)
StartNewThread(h) ==
    /\ hpc[h] = "s_new"
    /\ FreeSlots # {}
    /\ LET n == CHOOSE w \in FreeSlots : \A v \in FreeSlots : w <= v
           old == worker_thread
       IN /\ worker_thread' = n
          /\ wpc' = [w \in Workers |->
                       IF w = n THEN "new"
                       ELSE IF w = old /\ wpc[w] = "new" THEN "none"
                       ELSE wpc[w]]
          /\ wurl' = [wurl EXCEPT ![n] = 0]
          /\ wfeed' = [wfeed EXCEPT ![n] = <<>>]
          /\ widx' = [widx EXCEPT ![n] = 0]
          /\ wimg' = [wimg EXCEPT ![n] = FALSE]
          /\ wlog' = [wlog EXCEPT ![n] = <<>>]
          /\ wstopped' = [wstopped EXCEPT ![n] = FALSE]
          /\ wfail' = [wfail EXCEPT ![n] = <<>>]
          /\ wvia' = [wvia EXCEPT ![n] = "none"]
          /\ wmsg' = [wmsg EXCEPT ![n] = NoMessage]
    /\ hpc' = [hpc EXCEPT ![h] = "s_spawn"]
    /\ UNCHANGED <<is_running, stop_event, stats, sent_entries, channel,
                   hcmd, hfrom, hret, hjoin, env, disk, hist, faults>>

\* line 318: self.worker_thread.start(); a started Thread raises RuntimeError
StartSpawn(h) ==
    /\ hpc[h] = "s_spawn"
    /\ IF wpc[worker_thread] = "new"
       THEN /\ wpc' = [wpc EXCEPT ![worker_thread] = "begin"]
            /\ hpc' = [hpc EXCEPT ![h] = "s_time"]
            /\ UNCHANGED hret
       ELSE /\ hpc' = [hpc EXCEPT ![h] = "reply"]
            /\ hret' = [hret EXCEPT ![h] = "raised"]
            /\ UNCHANGED wpc
    /\ UNCHANGED <<cvars, stats, sent_entries, channel, hcmd, hfrom, hjoin,
                   wurl, wfeed, widx, wimg, wlog, wstopped, wfail, wvia, wmsg, env, disk, hist, faults>>

\* lines 321-327, one dict store each, in the order of the source
ResetOrder ==
    << <<"s_time", "start_time">>, <<"s_lc", "last_check">>, <<"s_posts", "posts_sent">>,
       <<"s_err", "errors">>, <<"s_used", "yagpt_used">>, <<"s_yerr", "yagpt_errors">>,
       <<"s_img", "images_generated">> >>

ResetPcs == {ResetOrder[i][1] : i \in 1..Len(ResetOrder)}

ResetValue(field) ==
    IF field = "start_time" THEN TRUE ELSE IF field = "last_check" THEN FALSE ELSE 0

\* lines 321-329; return True follows the last store
StartReset(h) ==
    /\ \E i \in 1..Len(ResetOrder) :
          /\ hpc[h] = ResetOrder[i][1]
          /\ stats' = [stats EXCEPT ![ResetOrder[i][2]] = ResetValue(ResetOrder[i][2])]
          /\ IF i < Len(ResetOrder)
             THEN /\ hpc' = [hpc EXCEPT ![h] = ResetOrder[i + 1][1]]
                  /\ UNCHANGED hret
             ELSE /\ hpc' = [hpc EXCEPT ![h] = "reply"]
                  /\ hret' = [hret EXCEPT ![h] = "true"]
    /\ UNCHANGED <<cvars, sent_entries, channel, hcmd, hfrom, hjoin, wvars, env, disk, hist, faults>>

\* line 332-333: if not self.is_running: return False
StopCheck(h) ==
    /\ hpc[h] = "p_check"
    /\ IF ~is_running
       THEN IF hcmd[h] = "restart"
            THEN /\ hpc' = [hpc EXCEPT ![h] = "r_sleep"]
                 /\ UNCHANGED hret
            ELSE /\ hpc' = [hpc EXCEPT ![h] = "reply"]
                 /\ hret' = [hret EXCEPT ![h] = "false"]
       ELSE /\ hpc' = [hpc EXCEPT ![h] = "p_run"]
            /\ UNCHANGED hret
    /\ UNCHANGED <<cvars, stats, sent_entries, channel, hcmd, hfrom, hjoin, wvars, env, disk, hist, faults>>

\* lines 344-345: status() returns self.is_running
status == is_running

\* a stop() that signals the worker and leaves is_running as it is
StopKeepsRunning(h) ==
    /\ hpc[h] = "p_run"
    /\ hpc' = [hpc EXCEPT ![h] = "p_set"]
    /\ UNCHANGED <<is_running, stop_event, worker_thread, stats, sent_entries, channel,
                   hcmd, hfrom, hret, hjoin, wvars, env, disk, hist, faults>>

\* line 335: self.is_running = False
StopClearRunning(h) ==
    /\ hpc[h] = "p_run"
    /\ is_running' = FALSE
    /\ hpc' = [hpc EXCEPT ![h] = "p_set"]
    /\ atstop' = IF track THEN sent_entries ELSE atstop
    /\ UNCHANGED <<stop_event, worker_thread, stats, sent_entries, channel,
                   hcmd, hfrom, hret, hjoin, wvars, env, disk, carried, faults>>

\* line 336: self.stop_event.set()
StopSignal(h) ==
    /\ hpc[h] = "p_set"
    /\ stop_event' = TRUE
    /\ hpc' = [hpc EXCEPT ![h] = "p_alive"]
    /\ wstopped' = [w \in Workers |->
                      wstopped[w] \/ (w = worker_thread /\ wpc[w] = "wait")]
    /\ UNCHANGED <<is_running, worker_thread, stats, sent_entries, channel,
                   hcmd, hfrom, hret, hjoin, wpc, wurl, wfeed, widx, wimg, wlog,
                   wfail, wvia, wmsg, env, disk, hist, faults>>

\* stop() returns True (line 342); restart_command goes on to time.sleep(1)
StopReturn(h) ==
    /\ IF hcmd[h] = "restart"
       THEN /\ hpc' = [hpc EXCEPT ![h] = "r_sleep"]
            /\ UNCHANGED hret
       ELSE /\ hpc' = [hpc EXCEPT ![h] = "reply"]
            /\ hret' = [hret EXCEPT ![h] = "true"]
    /\ hjoin' = [hjoin EXCEPT ![h] = NoThread]

\* line 339: if self.worker_thread and self.worker_thread.is_alive()
StopIsAlive(h) ==
    /\ hpc[h] = "p_alive"
    /\ IF worker_thread # NoThread /\ Alive(worker_thread)
       THEN /\ hpc' = [hpc EXCEPT ![h] = "p_join"]
            /\ hjoin' = [hjoin EXCEPT ![h] = worker_thread]
            /\ UNCHANGED hret
       ELSE StopReturn(h)
    /\ UNCHANGED <<cvars, stats, sent_entries, channel, hcmd, hfrom, wvars, env, disk, hist, faults>>

\* line 340: join(timeout=5.0) returns because the thread has finished
StopJoined(h) ==
    /\ hpc[h] = "p_join"
    /\ ~Alive(hjoin[h])
    /\ StopReturn(h)
    /\ UNCHANGED <<cvars, stats, sent_entries, channel, hcmd, hfrom, wvars, env, disk, hist, faults>>

\* line 340: join(timeout=5.0) returns because the 5 seconds have passed
StopJoinExpired(h) ==
    /\ hpc[h] = "p_join"
    /\ Alive(hjoin[h])
    /\ JoinCanExpire
    /\ StopReturn(h)
    /\ UNCHANGED <<cvars, stats, sent_entries, channel, hcmd, hfrom, wvars, env, disk, hist, faults>>

\* a restart that replies after its stop()
RestartOnlyStops(h) ==
    /\ hpc[h] = "r_sleep"
    /\ hpc' = [hpc EXCEPT ![h] = "reply"]
    /\ hret' = [hret EXCEPT ![h] = "true"]
    /\ UNCHANGED <<cvars, stats, sent_entries, channel, hcmd, hfrom, hjoin, wvars, env, disk, hist, faults>>

\* line 750: time.sleep(1), then controller.start()
RestartSleep(h) ==
    /\ hpc[h] = "r_sleep"
    /\ hpc' = [hpc EXCEPT ![h] = "s_check"]
    /\ UNCHANGED <<cvars, stats, sent_entries, channel, hcmd, hfrom, hret, hjoin, wvars, env, disk, hist, faults>>

\* bot.reply_to(...) of the handler; the handler thread is free again
Reply(h) ==
    /\ hpc[h] = "reply"
    /\ hpc' = [hpc EXCEPT ![h] = "idle"]
    /\ hcmd' = [hcmd EXCEPT ![h] = "none"]
    /\ hret' = [hret EXCEPT ![h] = "none"]
    /\ UNCHANGED <<cvars, stats, sent_entries, channel, hjoin, hfrom, wvars, env, disk, hist, faults>>

\* a message with a command or a button text reaches a handler thread; from is
\* message.from_user.id: OWNER_ID ("owner") or any other id ("other")
Arrive(h, c, from) ==
    /\ hpc[h] = "idle"
    /\ h <= threads
    /\ c \in {"start", "stop", "restart"}
    /\ from \in {"owner", "other"}
    /\ \/ from = "other"
       \/ c = "stop"
       \/ c = "start" /\ is_running
       \/ Cardinality(LiveWorkers) + Cardinality(Spawning) < slots
    /\ hcmd' = [hcmd EXCEPT ![h] = c]
    /\ hfrom' = [hfrom EXCEPT ![h] = from]
    /\ hret' = [hret EXCEPT ![h] = "none"]
    /\ hpc' = [hpc EXCEPT ![h] = "gate"]
    /\ UNCHANGED <<cvars, stats, sent_entries, channel, hjoin, wvars, env, disk, hist, faults>>

\* a handler that lets every sender through
GateOpen(h) ==
    /\ hpc[h] = "gate"
    /\ hpc' = [hpc EXCEPT ![h] = IF hcmd[h] = "start" THEN "s_check" ELSE "p_check"]
    /\ UNCHANGED <<cvars, stats, sent_entries, channel, hcmd, hfrom, hret, hjoin, wvars, env, disk, hist, faults>>

\* lines 718-719, 732-733, 746-747 (and 781-782 for a button):
\* if message.from_user.id != OWNER_ID: return
Gate(h) ==
    /\ hpc[h] = "gate"
    /\ IF hfrom[h] # "owner"
       THEN /\ hpc' = [hpc EXCEPT ![h] = "idle"]
            /\ hcmd' = [hcmd EXCEPT ![h] = "none"]
       ELSE /\ hpc' = [hpc EXCEPT ![h] = IF hcmd[h] = "start" THEN "s_check" ELSE "p_check"]
            /\ UNCHANGED hcmd
    /\ UNCHANGED <<cvars, stats, sent_entries, channel, hfrom, hret, hjoin, wvars, env, disk, hist, faults>>

\* ------------------------------------------------------------ rss_loop
\* A call that takes time and the statements after it that touch no shared state
\* are one step, which ends with the first shared write: a raise and the
\* "stats['errors'] += 1" of its handler, send_photo and os.remove.  Locals that are
\* dead at the end of an iteration (entry, image_path, feed) are cleared there.

Bump(field) == [stats EXCEPT ![field] = @ + 1]

\* the environment makes the call fail / lets it succeed
MayFail == faults < budget
Fail == MayFail /\ faults' = faults + 1
NoFail == UNCHANGED faults

CurrentLink(w) == Batch(wfeed[w])[widx[w]]

\* the for loop over the entries moves to its next entry
NextEntry(w) ==
    /\ widx' = [widx EXCEPT ![w] = @ + 1]
    /\ wimg' = [wimg EXCEPT ![w] = FALSE]
    /\ wvia' = [wvia EXCEPT ![w] = "none"]
    /\ wmsg' = [wmsg EXCEPT ![w] = NoMessage]
    /\ wpc' = [wpc EXCEPT ![w] = "entry"]

\* the for loop over RSS_URLS moves to its next url
NextUrl(w) ==
    /\ wurl' = [wurl EXCEPT ![w] = @ + 1]
    /\ wfeed' = [wfeed EXCEPT ![w] = <<>>]
    /\ widx' = [widx EXCEPT ![w] = 0]
    /\ wlog' = [wlog EXCEPT ![w] = <<>>]
    /\ wpc' = [wpc EXCEPT ![w] = "url"]

\* line 348: logger.info("===== RSS LOOP STARTED =====")
WBegin(w) ==
    /\ wpc[w] = "begin"
    /\ wpc' = [wpc EXCEPT ![w] = "loop"]
    /\ UNCHANGED <<cvars, stats, sent_entries, channel, hvars,
                   wurl, wfeed, widx, wimg, wlog, wstopped, wfail, wvia, wmsg, env, disk, hist, faults>>

\* a loop condition that does not read is_running
LoopIgnoresRunning(w) ==
    /\ wpc[w] = "loop"
    /\ wpc' = [wpc EXCEPT ![w] = "loop_event"]
    /\ wurl' = [wurl EXCEPT ![w] = 0]
    /\ wfail' = [wfail EXCEPT ![w] = <<>>]
    /\ UNCHANGED <<cvars, stats, sent_entries, channel, hvars,
                   wfeed, widx, wimg, wlog, wstopped, wvia, wmsg, env, disk, hist, faults>>

\* line 349: while self.is_running ...; line 429 when the loop ends
WLoop(w) ==
    /\ wpc[w] = "loop"
    /\ wpc' = [wpc EXCEPT ![w] = IF is_running THEN "loop_event" ELSE "done"]
    /\ wurl' = [wurl EXCEPT ![w] = 0]
    /\ wstopped' = [wstopped EXCEPT ![w] = @ /\ is_running]
    /\ wfail' = [wfail EXCEPT ![w] = <<>>]
    /\ UNCHANGED <<cvars, stats, sent_entries, channel, hvars,
                   wfeed, widx, wimg, wlog, wvia, wmsg, env, disk, hist, faults>>

\* line 349: ... and not self.stop_event.is_set(); line 429 when the loop ends
WLoopEvent(w) ==
    /\ wpc[w] = "loop_event"
    /\ wpc' = [wpc EXCEPT ![w] = IF stop_event THEN "done" ELSE "cycle"]
    /\ wstopped' = [wstopped EXCEPT ![w] = @ /\ ~stop_event]
    /\ UNCHANGED <<cvars, stats, sent_entries, channel, hvars,
                   wurl, wfeed, widx, wimg, wlog, wfail, wvia, wmsg, env, disk, hist, faults>>

\* lines 351-353: stats['last_check'] = now, then the for loop over RSS_URLS begins;
\* an exception of line 353 reaches the handler of line 424
WCycle(w) ==
    /\ wpc[w] = "cycle"
    /\ stats' = [stats EXCEPT !.last_check = TRUE]
    /\ \/ /\ NoFail
          /\ wpc' = [wpc EXCEPT ![w] = "url"]
          /\ wurl' = [wurl EXCEPT ![w] = 1]
       \/ /\ Fail
          /\ wpc' = [wpc EXCEPT ![w] = "crit"]
          /\ UNCHANGED wurl
    /\ UNCHANGED <<cvars, sent_entries, channel, hvars, wfeed, widx, wimg, wlog, wstopped, wfail, wvia, wmsg, env, disk, hist>>

\* a loop that never looks at the event
NeverSet == FALSE

\* lines 356 and 367: self.stop_event.is_set()
IsSet == stop_event

\* lines 355-357: next url of the for loop; break when the event is set
WNextUrl(w) ==
    /\ wpc[w] = "url"
    /\ wpc' = [wpc EXCEPT ![w] = IF wurl[w] > RSS_URLS \/ IsSet THEN "wait" ELSE "fetch"]
    /\ UNCHANGED <<cvars, stats, sent_entries, channel, hvars,
                   wurl, wfeed, widx, wimg, wlog, wstopped, wfail, wvia, wmsg, env, disk, hist, faults>>

\* a fetch failure that ends the cycle in the handler of line 424
FetchAborts(w) ==
    /\ stats' = Bump("errors")
    /\ wfail' = [wfail EXCEPT ![w] = Append(@, wurl[w])]
    /\ wpc' = [wpc EXCEPT ![w] = "crit"]
    /\ UNCHANGED <<wurl, wfeed, widx, wlog>>

\* lines 416-418: except Exception: stats['errors'] += 1, then the next url
FetchRaised(w) ==
    /\ stats' = Bump("errors")
    /\ wfail' = [wfail EXCEPT ![w] = Append(@, wurl[w])]
    /\ NextUrl(w)

\* lines 360-366 and 416-418: feedparser.parse(url) raises (errors += 1), yields no
\* entries (continue), or yields entries
WFetch(w) ==
    /\ wpc[w] = "fetch"
    /\ \/ /\ Fail
          /\ FetchRaised(w)
       \/ /\ NoFail
          /\ NextUrl(w)
          /\ UNCHANGED <<stats, wfail>>
       \/ \E f \in web :
             /\ NoFail
             /\ wfeed' = [wfeed EXCEPT ![w] = f]
             /\ widx' = [widx EXCEPT ![w] = 1]
             /\ wlog' = [wlog EXCEPT ![w] = <<>>]
             /\ wpc' = [wpc EXCEPT ![w] = "entry"]
             /\ UNCHANGED <<wurl, stats, wfail>>
    /\ UNCHANGED <<cvars, sent_entries, channel, hvars, wimg, wstopped, wvia, wmsg, env, disk, hist>>

\* line 370: not hasattr(entry, 'link') or entry.link in sent_entries
Skip(link) == link = NoLink \/ link \in sent_entries

\* lines 366-371: next entry of reversed(feed.entries[:10]); break when the event is set
WEntry(w) ==
    /\ wpc[w] = "entry"
    /\ IF widx[w] > Len(Batch(wfeed[w])) \/ IsSet
       THEN /\ NextUrl(w)
            /\ UNCHANGED wimg
       ELSE IF Skip(CurrentLink(w))
       THEN /\ widx' = [widx EXCEPT ![w] = @ + 1]
            /\ UNCHANGED <<wpc, wurl, wfeed, wimg, wlog>>
       ELSE /\ wpc' = [wpc EXCEPT ![w] = "format"]
            /\ UNCHANGED <<wurl, wfeed, widx, wimg, wlog>>
    /\ UNCHANGED <<cvars, stats, sent_entries, channel, hvars, wstopped, wfail, wvia, wmsg, env, disk, hist, faults>>

\* a validation whose length limits are inclusive
AcceptsInclusive(tl, dl) == tl >= 10 /\ dl >= 30 /\ tl <= 120 /\ dl <= 600

\* lines 455-457: the candidate passes the validation
Accepts(tl, dl) == tl > 0 /\ tl > 10 /\ dl > 0 /\ dl > 30 /\ tl < 120 /\ dl < 600

\* what enhance_with_yagpt and the validation of lines 449-465 do for one entry:
\*   request_error      lines 294-296  RequestException, yagpt_errors += 1
\*   processing_error   lines 297-299  any other exception, yagpt_errors += 1
\*   integration_error  lines 463-465  the validation itself raises, yagpt_errors += 1
\*   format_error       lines 281-283  no JSON object in the reply, returns None
\*   json_error         lines 290-292  json.JSONDecodeError, returns None
\*   candidate          lines 286-289  a dict with a title of tl and a description
\*                                     of dl characters
Counted == {"request_error", "processing_error", "integration_error"}
Silent == {"format_error", "json_error"}

Message(kind, tl, dl) ==
    LET ok == kind = "candidate" /\ Accepts(tl, dl)
    IN [enh |-> kind, tl |-> tl, dl |-> dl,
        title |-> IF ok THEN "enhanced" ELSE "original",
        description |-> IF ok THEN "enhanced" ELSE "original"]

\* the stats after the enhancement of one entry
Enhanced(kind, tl, dl) ==
    IF kind \in Counted THEN Bump("yagpt_errors")
    ELSE IF kind = "candidate" /\ Accepts(tl, dl) THEN Bump("yagpt_used")
    ELSE stats

\* lines 374, 432-465 and 412-414: format_message up to the image
WFormat(w) ==
    /\ wpc[w] = "format"
    /\ \/ /\ Fail                                  \* raises outside its try blocks
          /\ stats' = Bump("errors")
          /\ NextEntry(w)
       \/ /\ ~yagpt                                 \* line 446: not configured
          /\ NoFail
          /\ wmsg' = [wmsg EXCEPT ![w] = Message("off", 0, 0)]
          /\ wpc' = [wpc EXCEPT ![w] = "image"]
          /\ UNCHANGED <<stats, widx, wimg, wvia>>
       \/ /\ yagpt
          /\ \E kind \in Counted \cup Silent :
                /\ Fail
                /\ wmsg' = [wmsg EXCEPT ![w] = Message(kind, 0, 0)]
                /\ stats' = Enhanced(kind, 0, 0)
          /\ wpc' = [wpc EXCEPT ![w] = "image"]
          /\ UNCHANGED <<widx, wimg, wvia>>
       \/ /\ yagpt
          /\ NoFail
          /\ \E tl \in TitleLens, dl \in DescLens :
                /\ wmsg' = [wmsg EXCEPT ![w] = Message("candidate", tl, dl)]
                /\ stats' = Enhanced("candidate", tl, dl)
          /\ wpc' = [wpc EXCEPT ![w] = "image"]
          /\ UNCHANGED <<widx, wimg, wvia>>
    /\ UNCHANGED <<cvars, sent_entries, channel, hvars, wurl, wfeed, wlog, wstopped, wfail, env, disk, hist>>

\* an image generation whose failure is counted and ends the entry
ImageFailureFatal(w) ==
    /\ wpc[w] = "image"
    /\ \/ /\ stats' = Bump("images_generated")
          /\ disk' = disk + 1
          /\ wimg' = [wimg EXCEPT ![w] = TRUE]
          /\ wpc' = [wpc EXCEPT ![w] = "photo"]
          /\ UNCHANGED <<widx, wvia, wmsg>>
       \/ /\ stats' = Bump("errors")
          /\ NextEntry(w)
          /\ UNCHANGED disk
    /\ UNCHANGED <<cvars, sent_entries, channel, hvars, wurl, wfeed, wlog, wstopped, wfail, env, hist, faults>>

\* lines 471-483, 200-211: generate_image returns a path or None; line 377 branches on it
WImage(w) ==
    /\ wpc[w] = "image"
    /\ \/ /\ stats' = Bump("images_generated")
          /\ disk' = disk + 1                       \* line 203: img.save(output_path)
          /\ wimg' = [wimg EXCEPT ![w] = TRUE]
          /\ wpc' = [wpc EXCEPT ![w] = "photo"]
       \/ /\ wimg' = [wimg EXCEPT ![w] = FALSE]
          /\ wpc' = [wpc EXCEPT ![w] = "text"]
          /\ UNCHANGED <<stats, disk>>
    /\ UNCHANGED <<cvars, sent_entries, channel, hvars, wurl, wfeed, widx, wlog, wstopped, wfail, wvia, wmsg, env, hist, faults>>

\* a message carrying the entry reaches the channel
Deliver(w) ==
    /\ Len(channel) < posts
    /\ channel' = Append(channel, CurrentLink(w))
    /\ wlog' = [wlog EXCEPT ![w] = Append(@, BatchPos(wfeed[w])[widx[w]])]
    /\ wvia' = [wvia EXCEPT ![w] = wpc[w]]

\* lines 378-390: bot.send_photo and os.remove succeed; or send_photo succeeds and
\* os.remove raises (line 387) into the handler of line 389; or send_photo raises
\* into that handler
WPhoto(w) ==
    /\ wpc[w] = "photo"
    /\ \/ /\ NoFail
          /\ Deliver(w)
          /\ disk' = disk - 1                       \* line 387: os.remove(image_path)
          /\ wpc' = [wpc EXCEPT ![w] = "rec_add"]
       \/ /\ Fail
          /\ Deliver(w)
          /\ wpc' = [wpc EXCEPT ![w] = "fallback"]
          /\ UNCHANGED disk
       \/ /\ Fail
          /\ wpc' = [wpc EXCEPT ![w] = "fallback"]
          /\ UNCHANGED <<channel, wlog, wvia, disk>>
    /\ UNCHANGED <<cvars, stats, sent_entries, hvars, wurl, wfeed, widx, wimg, wstopped, wfail, wmsg, env, hist>>

\* a send_message whose failure ends the for loop over the entries of the source
TextFailureEndsSource(w) ==
    /\ wpc[w] \in {"text", "fallback"}
    /\ \/ /\ NoFail
          /\ Deliver(w)
          /\ wpc' = [wpc EXCEPT ![w] = "rec_add"]
          /\ UNCHANGED <<stats, wurl, wfeed, widx, wimg, wmsg>>
       \/ /\ Fail
          /\ stats' = Bump("errors")
          /\ NextUrl(w)
          /\ UNCHANGED <<channel, wimg, wvia, wmsg>>
    /\ UNCHANGED <<cvars, sent_entries, hvars, wstopped, wfail, env, disk, hist>>

\* a send_message whose success is counted in errors as well
TextCountsError(w) ==
    /\ wpc[w] \in {"text", "fallback"}
    /\ \/ /\ NoFail
          /\ Deliver(w)
          /\ wpc' = [wpc EXCEPT ![w] = "rec_add"]
          /\ stats' = Bump("errors")
          /\ UNCHANGED <<widx, wimg, wmsg>>
       \/ /\ Fail
          /\ stats' = Bump("errors")
          /\ NextEntry(w)
          /\ UNCHANGED <<channel, wlog>>
    /\ UNCHANGED <<cvars, sent_entries, hvars, wurl, wfeed, wstopped, wfail, env, disk, hist>>

\* lines 392-396 and 398-402: bot.send_message succeeds, or raises to line 412
\* (errors += 1)
WText(w) ==
    /\ wpc[w] \in {"text", "fallback"}
    /\ \/ /\ NoFail
          /\ Deliver(w)
          /\ wpc' = [wpc EXCEPT ![w] = "rec_add"]
          /\ UNCHANGED <<stats, widx, wimg, wmsg>>
       \/ /\ Fail
          /\ stats' = Bump("errors")
          /\ NextEntry(w)
          /\ UNCHANGED <<channel, wlog>>
    /\ UNCHANGED <<cvars, sent_entries, hvars, wurl, wfeed, wstopped, wfail, env, disk, hist>>

\* line 404: sent_entries.add(entry.link)
WRecordAdd(w) ==
    /\ wpc[w] = "rec_add"
    /\ sent_entries' = sent_entries \cup {CurrentLink(w)}
    /\ wpc' = [wpc EXCEPT ![w] = "rec_count"]
    /\ UNCHANGED <<cvars, stats, channel, hvars, wurl, wfeed, widx, wimg, wlog, wstopped, wfail, wvia, wmsg, env, disk, hist, faults>>

\* line 405: stats['posts_sent'] += 1
WRecordCount(w) ==
    /\ wpc[w] = "rec_count"
    /\ stats' = Bump("posts_sent")
    /\ wpc' = [wpc EXCEPT ![w] = "rec_time"]
    /\ UNCHANGED <<cvars, sent_entries, channel, hvars, wurl, wfeed, widx, wimg, wlog, wstopped, wfail, wvia, wmsg, env, disk, hist, faults>>

\* lines 406-407: stats['last_post'] = datetime.now()
WRecordTime(w) ==
    /\ wpc[w] = "rec_time"
    /\ stats' = [stats EXCEPT !.last_post = TRUE]
    /\ wpc' = [wpc EXCEPT ![w] = "sleep"]
    /\ UNCHANGED <<cvars, sent_entries, channel, hvars, wurl, wfeed, widx, wimg, wlog, wstopped, wfail, wvia, wmsg, env, disk, hist, faults>>

\* line 410: time.sleep(3), then the next entry
WSleep(w) ==
    /\ wpc[w] = "sleep"
    /\ NextEntry(w)
    /\ UNCHANGED <<cvars, stats, sent_entries, channel, hvars, wurl, wfeed, wlog, wstopped, wfail, env, disk, hist, faults>>

\* lines 421-422: self.stop_event.wait(CHECK_INTERVAL) returns: the event is set or
\* the interval has passed
WWait(w) ==
    /\ wpc[w] = "wait"
    /\ wpc' = [wpc EXCEPT ![w] = "loop"]
    /\ UNCHANGED <<cvars, stats, sent_entries, channel, hvars,
                   wurl, wfeed, widx, wimg, wlog, wstopped, wfail, wvia, wmsg, env, disk, hist, faults>>

\* a cycle-level failure that ends rss_loop
CriticalEnds(w) ==
    /\ wpc[w] = "crit"
    /\ stats' = Bump("errors")
    /\ wpc' = [wpc EXCEPT ![w] = "done"]
    /\ UNCHANGED <<cvars, sent_entries, channel, hvars, wurl, wfeed, widx, wimg, wlog, wstopped, wfail, wvia, wmsg, env, disk, hist, faults>>

\* lines 424-426: except Exception: logger.critical, stats['errors'] += 1
WCritical(w) ==
    /\ wpc[w] = "crit"
    /\ stats' = Bump("errors")
    /\ wpc' = [wpc EXCEPT ![w] = "cooldown"]
    /\ UNCHANGED <<cvars, sent_entries, channel, hvars, wurl, wfeed, widx, wimg, wlog, wstopped, wfail, wvia, wmsg, env, disk, hist, faults>>

\* line 427: time.sleep(30), then the loop condition
WCooldown(w) ==
    /\ wpc[w] = "cooldown"
    /\ wpc' = [wpc EXCEPT ![w] = "loop"]
    /\ UNCHANGED <<cvars, stats, sent_entries, channel, hvars,
                   wurl, wfeed, widx, wimg, wlog, wstopped, wfail, wvia, wmsg, env, disk, hist, faults>>

\* the statement worker w is at completes: rss_loop, lines 347-429
Work(w) ==
    \/ WBegin(w) \/ WLoop(w) \/ WLoopEvent(w) \/ WCycle(w) \/ WNextUrl(w) \/ WFetch(w)
    \/ WEntry(w) \/ WFormat(w) \/ WImage(w) \/ WPhoto(w) \/ WText(w)
    \/ WRecordAdd(w) \/ WRecordCount(w) \/ WRecordTime(w) \/ WSleep(w) \/ WWait(w)
    \/ WCritical(w) \/ WCooldown(w)

\* --------------------------------------------------------- specification
Next ==
    \/ \E h \in Handlers, c \in {"start", "stop", "restart"} : Dispatch(h, c)
    \/ \E h \in Handlers : StartCheck(h)
    \/ \E h \in Handlers : StartSetRunning(h)
    \/ \E h \in Handlers : StartClear(h)
    \/ \E h \in Handlers : StartNewThread(h)
    \/ \E h \in Handlers : StartSpawn(h)
    \/ \E h \in Handlers : StartReset(h)
    \/ \E h \in Handlers : StopCheck(h)
    \/ \E h \in Handlers : StopClearRunning(h)
    \/ \E h \in Handlers : StopSignal(h)
    \/ \E h \in Handlers : StopIsAlive(h)
    \/ \E h \in Handlers : StopJoined(h)
    \/ \E h \in Handlers : StopJoinExpired(h)
    \/ \E h \in Handlers : RestartSleep(h)
    \/ \E h \in Handlers : Reply(h)
    \/ \E w \in Workers : WBegin(w)
    \/ \E w \in Workers : WLoop(w)
    \/ \E w \in Workers : WLoopEvent(w)
    \/ \E w \in Workers : WCycle(w)
    \/ \E w \in Workers : WNextUrl(w)
    \/ \E w \in Workers : WFetch(w)
    \/ \E w \in Workers : WEntry(w)
    \/ \E w \in Workers : WFormat(w)
    \/ \E w \in Workers : WImage(w)
    \/ \E w \in Workers : WPhoto(w)
    \/ \E w \in Workers : WText(w)
    \/ \E w \in Workers : WRecordAdd(w)
    \/ \E w \in Workers : WRecordCount(w)
    \/ \E w \in Workers : WRecordTime(w)
    \/ \E w \in Workers : WSleep(w)
    \/ \E w \in Workers : WWait(w)
    \/ \E w \in Workers : WCritical(w)
    \/ \E w \in Workers : WCooldown(w)

Spec == Init /\ [][Next]_vars

\* The operator sends /start_bot messages only, and telebot hands them to both
\* threads of its pool.
NextRace ==
    \/ \E h \in Handlers : Dispatch(h, "start")
    \/ \E h \in Handlers : StartCheck(h)
    \/ \E h \in Handlers : StartSetRunning(h)
    \/ \E h \in Handlers : StartClear(h)
    \/ \E h \in Handlers : StartNewThread(h)
    \/ \E h \in Handlers : StartSpawn(h)
    \/ \E h \in Handlers : StartReset(h)
    \/ \E h \in Handlers : Reply(h)
    \/ \E w \in Workers : WBegin(w)
    \/ \E w \in Workers : WLoop(w)
    \/ \E w \in Workers : WLoopEvent(w)
    \/ \E w \in Workers : WCycle(w)
    \/ \E w \in Workers : WNextUrl(w)
    \/ \E w \in Workers : WFetch(w)
    \/ \E w \in Workers : WEntry(w)
    \/ \E w \in Workers : WFormat(w)
    \/ \E w \in Workers : WImage(w)
    \/ \E w \in Workers : WPhoto(w)
    \/ \E w \in Workers : WText(w)
    \/ \E w \in Workers : WRecordAdd(w)
    \/ \E w \in Workers : WRecordCount(w)
    \/ \E w \in Workers : WRecordTime(w)
    \/ \E w \in Workers : WSleep(w)
    \/ \E w \in Workers : WWait(w)
    \/ \E w \in Workers : WCritical(w)
    \/ \E w \in Workers : WCooldown(w)

SpecRace == InitRace /\ [][NextRace]_vars

SpecOrder == InitOrder /\ [][Next]_vars

SpecSources == InitSources /\ [][Next]_vars

SpecEnhance == InitEnhance /\ [][Next]_vars

\* Every collaborator call and every delay of a worker returns: a worker that can
\* take a step eventually takes one.
SpecLive == InitLive /\ [][Next]_vars /\ \A w \in Workers : WF_vars(Work(w))

SpecCarry == InitCarry /\ [][Next]_vars

\* Messages of the owner and of other senders, through the check of the sender.
NextGate ==
    \/ \E h \in Handlers, c \in {"start", "stop", "restart"}, from \in {"owner", "other"} :
          Arrive(h, c, from)
    \/ \E h \in Handlers : Gate(h)
    \/ \E h \in Handlers : StartCheck(h)
    \/ \E h \in Handlers : StartSetRunning(h)
    \/ \E h \in Handlers : StartClear(h)
    \/ \E h \in Handlers : StartNewThread(h)
    \/ \E h \in Handlers : StartSpawn(h)
    \/ \E h \in Handlers : StartReset(h)
    \/ \E h \in Handlers : StopCheck(h)
    \/ \E h \in Handlers : StopClearRunning(h)
    \/ \E h \in Handlers : StopSignal(h)
    \/ \E h \in Handlers : StopIsAlive(h)
    \/ \E h \in Handlers : StopJoined(h)
    \/ \E h \in Handlers : StopJoinExpired(h)
    \/ \E h \in Handlers : RestartSleep(h)
    \/ \E h \in Handlers : Reply(h)
    \/ \E w \in Workers : WBegin(w)
    \/ \E w \in Workers : WLoop(w)
    \/ \E w \in Workers : WLoopEvent(w)
    \/ \E w \in Workers : WCycle(w)
    \/ \E w \in Workers : WNextUrl(w)
    \/ \E w \in Workers : WFetch(w)
    \/ \E w \in Workers : WEntry(w)
    \/ \E w \in Workers : WFormat(w)
    \/ \E w \in Workers : WImage(w)
    \/ \E w \in Workers : WPhoto(w)
    \/ \E w \in Workers : WText(w)
    \/ \E w \in Workers : WRecordAdd(w)
    \/ \E w \in Workers : WRecordCount(w)
    \/ \E w \in Workers : WRecordTime(w)
    \/ \E w \in Workers : WSleep(w)
    \/ \E w \in Workers : WWait(w)
    \/ \E w \in Workers : WCritical(w)
    \/ \E w \in Workers : WCooldown(w)

SpecGate == InitGate /\ [][NextGate]_vars

\* ----------------------------------------------------------------- claims
\* handler h's join ends in this step because its 5 seconds have passed
JoinExpires(h) == hpc[h] = "p_join" /\ hpc'[h] # "p_join" /\ Alive(hjoin[h])

\* handler h executes the last store of start() (line 327) and returns True
StartReturns(h) == hpc[h] = "s_img" /\ hpc'[h] = "reply"

\* C1: in every reachable state at most one worker thread is executing rss_loop.
C1_AtMostOneWorker == Cardinality(LiveWorkers) <= 1

\* C2: no link is delivered to the channel more than once.
C2_NoLinkPublishedTwice ==
    \A i, j \in 1..Len(channel) : i # j => channel[i] # channel[j]

\* C3: start() while Running returns False, spawns no thread and changes nothing,
\* leaving exactly one active worker; stop() while Stopped returns False and changes
\* nothing.
C3_MisuseIsNoOp ==
    [][\A h \in Handlers :
         /\ (hpc[h] = "s_check" /\ hpc'[h] # "s_check" /\ is_running) =>
               /\ hret'[h] = "false"
               /\ UNCHANGED <<is_running, stop_event, worker_thread, wpc, stats, sent_entries>>
               /\ Cardinality(LiveWorkers) = 1
         /\ (hpc[h] = "p_check" /\ hpc'[h] # "p_check" /\ ~is_running) =>
               /\ hcmd[h] = "stop" => hret'[h] = "false"
               /\ UNCHANGED <<is_running, stop_event, worker_thread, wpc, stats, sent_entries>>
      ]_vars

\* C4: of two start() calls that race while the controller is Stopped, at most one
\* returns True and at most one worker thread is spawned.
C4_RacingStartsExclusive ==
    /\ Cardinality({h \in Handlers : hret[h] = "true"}) <= 1
    /\ Cardinality(LiveWorkers) <= 1

\* C5: the controller's worker, when it is in the inter-cycle wait as stop() sets
\* the event, starts no further cycle and has left rss_loop before that stop()'s
\* join has ended.
C5_StopInterruptsWait ==
    \A w \in Workers :
        wstopped[w] =>
            /\ wpc[w] \in {"wait", "loop", "loop_event"}
            /\ \E h \in Handlers : hpc[h] \in {"p_alive", "p_join"}

C5_Witness ==
    \E w \in Workers : wstopped[w] /\ wpc[w] = "loop" /\ stats.last_check

\* C6: the cooldown after a cycle-level failure is responsive to the stop signal:
\* stop()'s join never runs out while a worker is still in the cooldown.
C6_CooldownInterrupted ==
    [][\A h \in Handlers : JoinExpires(h) => \A w \in Workers : wpc[w] # "cooldown"]_vars

\* C7: after stop() followed by start() (restart_command), posts_sent, errors and
\* images_generated read zero when start() returns, the worker of the new run not
\* having executed a step yet.
C7_CountersZeroWhenStartReturns ==
    [][\A h \in Handlers :
         (StartReturns(h) /\ hcmd[h] = "restart" /\ wpc[worker_thread] = "begin") =>
             /\ stats'.posts_sent = 0
             /\ stats'.errors = 0
             /\ stats'.images_generated = 0
      ]_vars

\* C8: start() has reset the stats before the new worker executes any step of its
\* cycle: while a store of lines 321-327 is pending the worker has stored nothing.
C8_ResetBeforeWorkerRuns ==
    \A h \in Handlers :
        hpc[h] \in ResetPcs =>
            wpc[worker_thread] \in {"begin", "loop", "loop_event", "cycle"}

AllReset(s) ==
    /\ \A c \in Counters : s[c] = 0
    /\ \A t \in Timestamps : ~s[t]

\* C9: every field of stats is reset on the transition Stopped -> Running: when
\* start() returns and no worker has run since, the counters are zero and last_check
\* and last_post are unset.
C9_EveryFieldReset ==
    [][\A h \in Handlers :
         (StartReturns(h) /\ \A w \in Workers : wpc[w] \in {"none", "new", "done", "begin"})
             => AllReset(stats')
      ]_vars

\* C10: within one source only the first 10 entries of the fetched list are
\* considered, and the new ones are published oldest first: the positions a worker
\* has published since its fetch are at most 10 and never increase.
C10_OldestFirst ==
    \A w \in Workers :
        LET log == wlog[w]
            n == Len(log)
        IN /\ \A i \in 1..n : log[i] <= MaxEntries /\ log[i] <= Len(wfeed[w])
           /\ \A i, j \in 1..n : i < j => log[i] >= log[j]

\* [E1, E2, E3] has been published as E3, E2, E1
C10_Witness ==
    \E w \in Workers :
        /\ wfeed[w] = <<3, 2, 1>>
        /\ wlog[w] = <<3, 2, 1>>
        /\ channel = <<1, 2, 3>>

\* C11: a fetch that raises adds exactly one to errors and the loop moves to the
\* next source; a source is fetched whenever one is left and the event is clear,
\* whatever failed before it in the cycle.
C11_FetchFailureIsolated ==
    [][\A w \in Workers :
         /\ (wpc[w] = "fetch" /\ Len(wfail'[w]) > Len(wfail[w])) =>
               /\ stats'.errors = stats.errors + 1
               /\ wpc'[w] = "url"
               /\ wurl'[w] = wurl[w] + 1
         /\ (wpc[w] = "url" /\ wpc'[w] # "url" /\ wurl[w] <= RSS_URLS /\ ~stop_event) =>
               wpc'[w] = "fetch"
      ]_vars

\* the first source raised, the entry of the second one is published and recorded in
\* the same cycle, errors is 1
C11_Witness ==
    \E w \in Workers :
        /\ wfail[w] = <<1>>
        /\ wurl[w] = 2
        /\ wlog[w] = <<1>>
        /\ wpc[w] = "sleep"
        /\ channel = <<1>>
        /\ sent_entries = {1}
        /\ stats.errors = 1
        /\ stats.posts_sent = 1

\* worker w has delivered a message for the link and has not yet passed line 404
Recording(w, link) ==
    /\ wpc[w] \in {"fallback", "rec_add"}
    /\ wvia[w] # "none"
    /\ CurrentLink(w) = link

\* C12: a link is in sent_entries if and only if a message for it has been published:
\* every recorded link has been delivered, and every delivered link is recorded as
\* soon as the worker that delivered it is done with the entry.
C12_RecordedIffPublished ==
    /\ \A link \in sent_entries : \E i \in 1..Len(channel) : channel[i] = link
    /\ \A i \in 1..Len(channel) :
          \/ channel[i] \in sent_entries
          \/ \E w \in Workers : Recording(w, channel[i])

\* C13: while the stop event is set no worker starts a fetch or begins an entry: the
\* check before a source ends the for loop over the sources, the check before an
\* entry ends the for loop over the entries, and nothing else leads to a fetch or to
\* the formatting of an entry.
C13_NoNewWorkAfterStop ==
    [][stop_event =>
         \A w \in Workers :
            /\ (wpc'[w] \in {"fetch", "format"}) => wpc'[w] = wpc[w]
            /\ (wpc[w] = "url" /\ wpc'[w] # "url") => wpc'[w] = "wait"
            /\ (wpc[w] = "entry" /\ <<wpc[w], widx[w]>> # <<wpc'[w], widx'[w]>>) =>
                   wpc'[w] = "url"
      ]_vars

\* the event is set, the first source's entry is published and recorded, and the
\* worker has left the for loop before the second source
C13_Witness ==
    \E w \in Workers :
        /\ stop_event
        /\ wpc[w] = "wait"
        /\ wurl[w] = 2 /\ wurl[w] <= RSS_URLS
        /\ channel = <<1>> /\ sent_entries = {1}

\* C14: a stop() that finds the bot running returns True with is_running False and
\* the event set, whether the worker has finished, or the join has run out, or there
\* was nothing to join; it returns False only when the bot was not running; and
\* status() turns to running again only by line 315 of a start().
C14_StopAlwaysStops ==
    [][/\ \A h \in Handlers :
            /\ (hcmd[h] = "stop" /\ hpc[h] = "p_check" /\ hpc'[h] # "p_check") =>
                   IF status THEN hpc'[h] = "p_run" ELSE hret'[h] = "false"
            /\ (hcmd[h] = "stop" /\ hpc[h] \in {"p_alive", "p_join"}
                                 /\ hpc'[h] \notin {"p_alive", "p_join"}) =>
                   /\ hpc'[h] = "reply" /\ hret'[h] = "true"
                   /\ ~status' /\ stop_event'
       /\ (status' /\ ~status) => \E h \in Handlers : hpc[h] = "s_run"
      ]_vars

\* stop() has returned True while the thread it joined is still alive
C14_Witness ==
    \E h \in Handlers :
        /\ hcmd[h] = "stop" /\ hpc[h] = "reply" /\ hret[h] = "true"
        /\ worker_thread # NoThread /\ Alive(worker_thread)
        /\ ~status /\ stop_event

\* C15: a worker starts with is_running True and the event clear, only a stop()
\* changes either (lines 335 and 336), and the worker leaves rss_loop only by reading
\* is_running False or the event set at line 349; a cycle-level failure adds one to
\* errors, sleeps, and goes back to the loop condition.
C15_OnlyStopEndsLoop ==
    [][/\ \A w \in Workers :
            /\ (wpc[w] = "new" /\ wpc'[w] = "begin") => is_running /\ ~stop_event
            /\ (wpc[w] # "done" /\ wpc'[w] = "done") =>
                   \/ wpc[w] = "loop" /\ ~is_running
                   \/ wpc[w] = "loop_event" /\ stop_event
            /\ (wpc[w] = "crit" /\ wpc'[w] # "crit") =>
                   wpc'[w] = "cooldown" /\ stats'.errors = stats.errors + 1
            /\ (wpc[w] = "cooldown" /\ wpc'[w] # "cooldown") => wpc'[w] = "loop"
       /\ (is_running /\ ~is_running') => \E h \in Handlers : hpc[h] = "p_run"
       /\ (~stop_event /\ stop_event') => \E h \in Handlers : hpc[h] = "p_set"
      ]_vars

\* a worker sleeping after a cycle-level failure, the failure counted, no stop() made
C15_Witness ==
    \E w \in Workers :
        /\ wpc[w] = "cooldown" /\ w = worker_thread
        /\ stats.errors = 1 /\ faults = 1
        /\ is_running /\ ~stop_event

\* C16: format_message takes the candidate's title and description, and adds one to
\* yagpt_used, exactly when 10 < len(title) < 120 and 30 < len(description) < 600;
\* otherwise the message keeps the original title and description and yagpt_used
\* stays as it is.
C16_StrictValidation ==
    [][\A w \in Workers :
          (wpc[w] = "format" /\ wpc'[w] = "image" /\ wmsg'[w].enh = "candidate") =>
             LET m == wmsg'[w]
             IN IF 10 < m.tl /\ m.tl < 120 /\ 30 < m.dl /\ m.dl < 600
                THEN /\ m.title = "enhanced" /\ m.description = "enhanced"
                     /\ stats'.yagpt_used = stats.yagpt_used + 1
                ELSE /\ m.title = "original" /\ m.description = "original"
                     /\ stats'.yagpt_used = stats.yagpt_used
      ]_vars

\* a candidate with a title of 5 characters was rejected and the entry published
\* with the original text
C16_Witness ==
    \E w \in Workers :
        /\ wmsg[w].enh = "candidate" /\ wmsg[w].tl = 5 /\ wmsg[w].dl = 31
        /\ wmsg[w].title = "original" /\ wmsg[w].description = "original"
        /\ wpc[w] = "rec_add" /\ channel = <<1>>
        /\ stats.yagpt_used = 0

\* the enhancement of the entry in hand failed: the request or its processing raised,
\* the reply could not be parsed, or the candidate did not pass the validation
EnhancementFailed(m) ==
    \/ m.enh \in Counted \cup Silent
    \/ m.enh = "candidate" /\ m.title = "original"

\* C17: every format_message step in which the enhancement fails adds exactly one to
\* yagpt_errors and goes on to publish the entry.
C17_EveryFailureCounted ==
    [][\A w \in Workers :
          (wpc[w] = "format" /\ wpc'[w] = "image" /\ EnhancementFailed(wmsg'[w])) =>
             stats'.yagpt_errors = stats.yagpt_errors + 1
      ]_vars

\* the fetch of worker w returns a feed without entries
EmptyFetch(w) == wpc[w] = "fetch" /\ wpc'[w] = "url" /\ wfail'[w] = wfail[w]

\* C18: a fetch that yields no entries adds one to errors, and the loop moves to the
\* next source.
C18_EmptyFeedCounted ==
    [][\A w \in Workers :
          EmptyFetch(w) => stats'.errors = stats.errors + 1 /\ wurl'[w] = wurl[w] + 1
      ]_vars

\* C19: a failed photo publish leaves the counters alone and leads to the text
\* fallback; a fallback that succeeds puts the same entry in the channel without
\* touching errors, and the entry is then recorded as after any publish: its link
\* joins sent_entries, posts_sent grows by one, last_post is set.
C19_FallbackRecorded ==
    [][\A w \in Workers :
          /\ (wpc[w] = "photo" /\ wpc'[w] = "fallback") =>
                 stats' = stats /\ sent_entries' = sent_entries
          /\ (wpc[w] = "fallback" /\ wpc'[w] = "rec_add") =>
                 /\ channel' = Append(channel, CurrentLink(w))
                 /\ wvia'[w] = "fallback"
                 /\ stats' = stats
          /\ (wpc[w] = "rec_add" /\ wpc'[w] # "rec_add") =>
                 /\ sent_entries' = sent_entries \cup {CurrentLink(w)}
                 /\ stats' = stats
                 /\ wpc'[w] = "rec_count"
          /\ (wpc[w] = "rec_count" /\ wpc'[w] # "rec_count") =>
                 /\ stats' = [stats EXCEPT !.posts_sent = @ + 1]
                 /\ wpc'[w] = "rec_time"
          /\ (wpc[w] = "rec_time" /\ wpc'[w] # "rec_time") =>
                 /\ stats' = [stats EXCEPT !.last_post = TRUE]
                 /\ CurrentLink(w) \in sent_entries'
                 /\ wpc'[w] = "sleep"
      ]_vars

\* send_photo failed, the text fallback delivered the entry, and the entry is
\* recorded with no error counted
C19_Witness ==
    \E w \in Workers :
        /\ wvia[w] = "fallback" /\ wpc[w] = "sleep" /\ wimg[w]
        /\ channel = <<1>> /\ sent_entries = {1}
        /\ stats.posts_sent = 1 /\ stats.last_post /\ stats.errors = 0
        /\ faults = 1

\* C20: with commands handled one at a time a restart runs stop() and then start():
\* between the two the bot is stopped, the start() is never refused, it makes a new
\* Thread object and starts it, and the restart replies with the bot running and
\* that thread alive.
C20_RestartEndsRunning ==
    [][\A h \in Handlers :
          hcmd[h] = "restart" =>
             /\ (hpc[h] = "p_check" /\ hpc'[h] # "p_check") =>
                    hpc'[h] = (IF status THEN "p_run" ELSE "r_sleep")
             /\ hpc'[h] = "r_sleep" => ~status'
             /\ (hpc[h] = "r_sleep" /\ hpc'[h] # "r_sleep") => hpc'[h] = "s_check"
             /\ (hpc[h] = "s_check" /\ hpc'[h] # "s_check") => hpc'[h] = "s_run"
             /\ (hpc[h] = "s_new" /\ hpc'[h] # "s_new") =>
                    /\ wpc[worker_thread'] \in {"none", "done"}
                    /\ wpc'[worker_thread'] = "new"
             /\ (hpc[h] = "s_spawn" /\ hpc'[h] # "s_spawn") =>
                    wpc'[worker_thread] = "begin" /\ hpc'[h] # "reply"
             /\ hpc'[h] = "reply" =>
                    /\ hret'[h] = "true" /\ status'
                    /\ wpc'[worker_thread'] \notin {"none", "new", "done"}
      ]_vars

\* a restart issued while running has replied: the previous worker has ended, the
\* bot is running and the new worker is alive
C20_Witness ==
    \E h \in Handlers :
        /\ hcmd[h] = "restart" /\ hpc[h] = "reply" /\ hret[h] = "true"
        /\ status /\ ~stop_event
        /\ worker_thread # NoThread /\ Alive(worker_thread)
        /\ \E w \in Workers : w # worker_thread /\ wpc[w] = "done"

\* C21: every image file on disk belongs to an entry that a worker is still
\* processing: once an entry is done with (published with the photo, published by
\* the text fallback, or failed) its image file is gone.
C21_ImagesTransient ==
    disk <= Cardinality({w \in Workers : wimg[w]})

\* C22: a handler that holds a message of a sender other than OWNER_ID does one
\* thing only, return: it never reaches a reply, and the step leaves the controller,
\* the event, the workers, stats, sent_entries, the channel and the image files as
\* they were; taking the message off the queue changes none of them either.
C22_StrangersIgnored ==
    [][\A h \in Handlers :
          /\ (hfrom'[h] = "other" /\ hpc'[h] # "idle") => hpc'[h] = "gate"
          /\ ((hfrom[h] = "other" \/ hfrom'[h] = "other") /\ hpc'[h] # hpc[h]) =>
                 /\ hpc'[h] \in {"gate", "idle"}
                 /\ UNCHANGED <<cvars, stats, sent_entries, channel, disk, wvars, hret, hjoin>>
                 /\ hpc'[h] = "idle" => hcmd'[h] = "none"
      ]_vars

\* a message of another sender has been dropped while the bot runs: it runs as before
C22_Witness ==
    \E h \in Handlers :
        /\ hfrom[h] = "other" /\ hpc[h] = "idle" /\ hcmd[h] = "none"
        /\ is_running /\ ~stop_event
        /\ worker_thread # NoThread /\ Alive(worker_thread)

\* C23: from any state in which the bot is stopped and a worker is alive, that worker
\* leaves rss_loop unless a start() sets is_running again (or the channel of the
\* model has taken all the messages it takes).
C23_StoppedWorkerExits ==
    \A w \in Workers :
        (~is_running /\ Alive(w)) ~> (~Alive(w) \/ is_running \/ Len(channel) = posts)

\* a worker has left rss_loop after a stop(), having published before
C23_Witness ==
    \E w \in Workers :
        /\ wpc[w] = "done" /\ w = worker_thread
        /\ ~is_running /\ stop_event
        /\ channel = <<1>>

\* C24: an exception that reaches the handler of line 412 from format_message or from
\* the publish of an entry adds exactly one to errors, leaves sent_entries, posts_sent
\* and last_post as they were, and the for loops go on: the worker moves to the next
\* entry of the same feed of the same source.
C24_EntryFailureIsolated ==
    [][\A w \in Workers :
          (wpc[w] \in {"format", "text", "fallback"} /\ wpc'[w] \notin {"image", "rec_add"}
                                                   /\ wpc'[w] # wpc[w]) =>
             /\ stats' = [stats EXCEPT !.errors = @ + 1]
             /\ sent_entries' = sent_entries
             /\ wpc'[w] = "entry"
             /\ widx'[w] = widx[w] + 1
             /\ wfeed'[w] = wfeed[w] /\ wurl'[w] = wurl[w]
      ]_vars

\* the publish of the oldest entry failed and the next entry of the same feed is
\* published and recorded
C24_Witness ==
    \E w \in Workers :
        /\ wfeed[w] = <<3, 2, 1>> /\ widx[w] = 2 /\ wpc[w] = "sleep"
        /\ wlog[w] = <<2>> /\ channel = <<2>> /\ sent_entries = {2}
        /\ stats.errors = 1 /\ stats.posts_sent = 1

\* C25: sent_entries never loses a link, the steps of start(), stop() and restart
\* leave it as it is, and a link that was recorded when a stop() was made is not
\* delivered to the channel again after a later start().
C25_RecordedNeverRepublished ==
    [][/\ sent_entries \subseteq sent_entries'
       /\ (hpc' # hpc) => sent_entries' = sent_entries
       /\ (Len(channel') > Len(channel)) => channel'[Len(channel')] \notin carried
      ]_vars

\* C26: when generate_image gives no path the step counts nothing and leads to the
\* text publish; the text publish that succeeds puts the entry in the channel with
\* errors as it was, and line 404 then records the link.
C26_ImageFailureNotFatal ==
    [][\A w \in Workers :
          /\ (wpc[w] = "image" /\ wpc'[w] \notin {"image", "photo"}) =>
                 /\ wpc'[w] = "text" /\ ~wimg'[w]
                 /\ stats' = stats /\ disk' = disk
          /\ (wpc[w] = "text" /\ wpc'[w] \notin {"text", "entry"}) =>
                 /\ wpc'[w] = "rec_add" /\ wvia'[w] = "text"
                 /\ channel' = Append(channel, CurrentLink(w))
                 /\ stats' = stats
          /\ (wvia[w] = "text" /\ wpc[w] = "rec_add" /\ wpc'[w] # "rec_add") =>
                 CurrentLink(w) \in sent_entries'
      ]_vars

\* an entry without an image has been published as text and recorded, no image
\* generated and no error counted
C26_Witness ==
    \E w \in Workers :
        /\ wvia[w] = "text" /\ ~wimg[w] /\ wpc[w] = "sleep"
        /\ channel = <<1>> /\ sent_entries = {1}
        /\ stats.images_generated = 0 /\ stats.errors = 0 /\ stats.posts_sent = 1
        /\ disk = 0

\* C27: the text fallback of an entry with an image is sent only when the photo
\* publish did not deliver the entry: a worker that sends the fallback has no
\* message for the entry in the channel yet.
C27_OneMessagePerEntry ==
    [][\A w \in Workers :
          (wpc[w] = "fallback" /\ wpc'[w] = "rec_add") => wvia[w] = "none"
      ]_vars

\* C28: posts_sent never exceeds the number of links in sent_entries.
C28_PostsAtMostRecorded ==
    stats.posts_sent <= Cardinality(sent_entries)

\* a message for the link is in the channel
Published(link) == \E i \in 1..Len(channel) : channel[i] = link

\* C29: a worker that comes to an entry with a link that is not recorded, the event
\* clear, attempts it (so a failed entry is attempted again in the next cycle), and
\* no worker begins an attempt for an entry that has been published.
C29_RetriedUntilPublished ==
    [][\A w \in Workers :
          (wpc[w] = "entry" /\ widx[w] <= Len(Batch(wfeed[w])) /\ ~stop_event) =>
             /\ (~Skip(CurrentLink(w)) /\ wpc'[w] # "entry") => wpc'[w] = "format"
             /\ wpc'[w] = "format" => ~Published(CurrentLink(w))
      ]_vars

====
